---- MODULE Spec2Model ----
(***************************************************************************)
(* Model of package simplelog (src/simplelog.go): five LogLevel bindings,  *)
(* the package variable logThreshold, and the operations SetThreshold,     *)
(* IsDebug, LogThreshold, LogLevel.Printf and LogLevel.Println.            *)
(*                                                                         *)
(* Spec     : one goroutine calls the operations one after another; each   *)
(*            call is one step.                                            *)
(* SpecRace : several goroutines call SetThreshold and the write           *)
(*            operations with no synchronisation; a write is split at its  *)
(*            accesses to shared state (read of logThreshold on line 75,   *)
(*            output on line 76, os.Exit on line 79).                      *)
(***************************************************************************)
EXTENDS Integers, Sequences, FiniteSets, TLC

VARIABLES
    logThreshold,   \* var logThreshold (line 37)
    levels,         \* the five *LogLevel objects (lines 30-36), after init()
    stdout,         \* what has been written to os.Stdout, one entry per Write
    stderr,         \* what has been written to os.Stderr, one entry per Write
    exited,         \* os.Exit has been called
    exitStatus,     \* the status given to os.Exit (meaningful when exited)
    ret,            \* per goroutine: its last call, when that was SetThreshold,
                    \* IsDebug or LogThreshold, and what the call returned
    pc,             \* per goroutine: position inside Printf/Println
    call,           \* per goroutine: its last call, when that was Printf or
                    \* Println (in SpecRace: while the call is in progress)
    stored          \* per goroutine: the values it has stored in logThreshold,
                    \* oldest first (the writes a racing read may observe)

vars == <<logThreshold, levels, stdout, stderr, exited, exitStatus,
          ret, pc, call, stored>>

-----------------------------------------------------------------------------
(* Bounds of the model *)

MaxLines == 2      \* at most this many lines are written in a behaviour
MaxStores == 2     \* SpecRace: at most this many stores to logThreshold

-----------------------------------------------------------------------------
(* Constants of the package *)

LevelDebug == 0
LevelInfo == 1
LevelWarning == 2
LevelError == 3
LevelFatal == 4

LstdFlags == 3     \* log.LstdFlags = Ldate | Ltime

LevelNames == {"Fatal", "Error", "Warning", "Info", "Debug"}

ErrInvalidThreshold == "ErrInvalidThreshold"
Nil == "nil"

\* The goroutines. Spec runs only "main".
Procs == {"main", "g1"}

\* Arguments given to SetThreshold: every valid rank, one below, one above, 999.
ThresholdArgs == ((LevelDebug - 1) .. (LevelFatal + 1)) \cup {999}

\* Arguments given to Printf: a format and one operand.
Formats == {<<"%v">>, <<"x", "\n">>}
Operands == {"x"}
\* Arguments given to Println: the operand lists.
OperandLists == {<<"x">>, <<"x", "y">>}

-----------------------------------------------------------------------------
(* Construction: lines 30-36 and init() *)

\* log.New(out, prefix, flag)
NewLogger(out, prefix, flag) == [out |-> out, prefix |-> prefix, flag |-> flag]

\* One struct literal of lines 31-35; logger is nil until init() runs.
Binding(prefix, level, destination) ==
    [prefix |-> prefix, level |-> level, destination |-> destination,
     logger |-> [out |-> "nil", prefix |-> "", flag |-> 0]]

Declared ==
    [n \in LevelNames |->
        CASE n = "Fatal"   -> Binding("FATAL: ", LevelFatal, "os.Stderr")
          [] n = "Error"   -> Binding("ERROR: ", LevelError, "os.Stderr")
          [] n = "Warning" -> Binding("WARNING: ", LevelWarning, "os.Stderr")
          [] n = "Info"    -> Binding("INFO: ", LevelInfo, "os.Stdout")
          [] n = "Debug"   -> Binding("DEBUG: ", LevelDebug, "os.Stdout")]

\* Mutant: every logger built on os.Stderr, whatever the level's destination.
InitLoggerStderr(level) ==
    [level EXCEPT !.logger = NewLogger("os.Stderr", level.prefix, LstdFlags)]

\* The loop body of init(), line 47.
InitLogger(level) ==
    [level EXCEPT !.logger = NewLogger(level.destination, level.prefix, LstdFlags)]

\* init(): every level gets its logger.
AfterInit == [n \in LevelNames |-> InitLogger(Declared[n])]

-----------------------------------------------------------------------------
(* Message construction (fmt.Sprintf, fmt.Sprintln) and log.Logger.Output *)

\* fmt.Sprintf over a format given as a sequence of tokens, "%v" being the verb.
RECURSIVE Sprintf(_, _)
Sprintf(format, v) ==
    IF format = <<>> THEN <<>>
    ELSE <<(IF Head(format) = "%v" THEN v ELSE Head(format))>> \o Sprintf(Tail(format), v)

\* fmt.Sprintln: the operands separated by spaces, then a newline.
RECURSIVE Sprintln(_)
Sprintln(v) ==
    IF v = <<>> THEN <<"\n">>
    ELSE IF Len(v) = 1 THEN <<v[1], "\n">>
    ELSE <<v[1], " ">> \o Sprintln(Tail(v))

\* What the logger hands to its writer in one Write: prefix, date and time
\* (when the flags ask for them), the text, and a newline if the text lacks one.
Output(logger, s) ==
    [prefix  |-> logger.prefix,
     stamped |-> logger.flag = LstdFlags,
     text    |-> IF s = <<>> \/ s[Len(s)] # "\n" THEN Append(s, "\n") ELSE s]

-----------------------------------------------------------------------------
(* The pure parts of the operations *)

\* Line 37: the initializer of logThreshold.
InitialThreshold == LevelError

\* Mutants of the range test: LevelFatal rejected; LevelFatal + 1 accepted;
\* LevelDebug - 1 accepted.
SetThresholdAcceptsBelowFatal(t) == ~(t < LevelDebug \/ t >= LevelFatal)
SetThresholdAcceptsPastFatal(t) == ~(t < LevelDebug \/ t > LevelFatal + 1)
SetThresholdAcceptsNegative(t) == ~(t < LevelDebug - 1 \/ t > LevelFatal)

\* Line 54: the range test of SetThreshold (TRUE when t is accepted).
SetThresholdAccepts(t) == ~(t < LevelDebug \/ t > LevelFatal)

\* Lines 54-58: what SetThreshold(t) returns.
SetThresholdError(t) == IF SetThresholdAccepts(t) THEN Nil ELSE ErrInvalidThreshold

\* Mutant: the store placed before the range test.
SetThresholdStoresUnchecked(t) == <<t>>

\* Lines 54-57: the stores to logThreshold that SetThreshold(t) performs, in
\* order: one store of t when t is accepted, none otherwise.
SetThresholdStores(t) == IF SetThresholdAccepts(t) THEN <<t>> ELSE <<>>

\* The value of a variable after the stores ws, cur being its value before.
AfterStores(ws, cur) == IF ws = <<>> THEN cur ELSE ws[Len(ws)]

\* Mutant: Info counted as debugging too.
IsDebugOrInfo == logThreshold <= LevelInfo

\* Line 63: IsDebug().
IsDebug == logThreshold = LevelDebug

\* Line 68: LogThreshold().
LogThreshold == logThreshold

\* Mutants of the gating test: a strict comparison; a comparison with the
\* threshold the package started with instead of the one read at the call.
GateStrict(l, threshold) == l.level > threshold
GateAtStart(l, threshold) == l.level >= InitialThreshold

\* Lines 75 and 87: the gating test, l a LogLevel and threshold the value read
\* from logThreshold.
Gate(l, threshold) == l.level >= threshold

\* Mutant: the test for Fatal never true.
ExitsProcessAboveFatal(l) == l.level > LevelFatal

\* Lines 78 and 90: whether the call ends in os.Exit.
ExitsProcess(l) == l.level = LevelFatal

\* Lines 79 and 91: the status handed to os.Exit.
ExitCode == 1

\* Lines 76 and 88: l.logger writes one line to the writer it was built with.
StdoutAfterWrite(l, s) ==
    IF l.logger.out = "os.Stdout" THEN Append(stdout, Output(l.logger, s)) ELSE stdout

StderrAfterWrite(l, s) ==
    IF l.logger.out = "os.Stderr" THEN Append(stderr, Output(l.logger, s)) ELSE stderr

Lines == Len(stdout) + Len(stderr)

-----------------------------------------------------------------------------
(* State *)

NoRet == [op |-> "none", arg |-> 0, err |-> "-", int |-> 0, bool |-> FALSE]
NoCall == [op |-> "none", level |-> "-", text |-> <<>>, seen |-> 0, printed |-> FALSE]

Init ==
    /\ logThreshold = InitialThreshold
    /\ levels = AfterInit
    /\ stdout = <<>>
    /\ stderr = <<>>
    /\ exited = FALSE
    /\ exitStatus = 0
    /\ ret = [p \in Procs |-> NoRet]
    /\ pc = [p \in Procs |-> "idle"]
    /\ call = [p \in Procs |-> NoCall]
    /\ stored = [p \in Procs |-> <<>>]

-----------------------------------------------------------------------------
(* Spec: the operations called one after another by goroutine "main" *)

\* SetThreshold(t), lines 53-59.
SetThreshold(t) ==
    /\ ~exited
    /\ logThreshold' = AfterStores(SetThresholdStores(t), logThreshold)
    /\ ret' = [ret EXCEPT !["main"] =
                  [NoRet EXCEPT !.op = "SetThreshold", !.arg = t,
                                !.err = SetThresholdError(t)]]
    /\ call' = [call EXCEPT !["main"] = NoCall]
    /\ UNCHANGED <<levels, stdout, stderr, exited, exitStatus, pc, stored>>

\* A call of IsDebug(), lines 62-64.
CallIsDebug ==
    /\ ~exited
    /\ ret' = [ret EXCEPT !["main"] = [NoRet EXCEPT !.op = "IsDebug", !.bool = IsDebug]]
    /\ call' = [call EXCEPT !["main"] = NoCall]
    /\ UNCHANGED <<logThreshold, levels, stdout, stderr, exited, exitStatus,
                   pc, stored>>

\* A call of LogThreshold(), lines 66-69.
CallLogThreshold ==
    /\ ~exited
    /\ ret' = [ret EXCEPT !["main"] =
                  [NoRet EXCEPT !.op = "LogThreshold", !.int = LogThreshold]]
    /\ call' = [call EXCEPT !["main"] = NoCall]
    /\ UNCHANGED <<logThreshold, levels, stdout, stderr, exited, exitStatus,
                   pc, stored>>

\* The body Printf and Println share (lines 75-80, 87-92), s being the text
\* the logger is given.
WriteCall(op, n, s) ==
    LET l == levels[n] IN
    /\ Gate(l, logThreshold) => Lines < MaxLines
    /\ IF Gate(l, logThreshold)
         THEN /\ stdout' = StdoutAfterWrite(l, s)
              /\ stderr' = StderrAfterWrite(l, s)
         ELSE UNCHANGED <<stdout, stderr>>
    /\ IF ExitsProcess(l)
         THEN /\ exited' = TRUE
              /\ exitStatus' = ExitCode
         ELSE UNCHANGED <<exited, exitStatus>>
    /\ call' = [call EXCEPT !["main"] =
                   [op |-> op, level |-> n, text |-> s, seen |-> logThreshold,
                    printed |-> Gate(l, logThreshold)]]
    /\ ret' = [ret EXCEPT !["main"] = NoRet]
    /\ UNCHANGED <<logThreshold, levels, pc, stored>>

\* l.Printf(format, v), lines 74-81.
Printf(n, format, v) ==
    /\ ~exited
    /\ WriteCall("Printf", n, Sprintf(format, v))

\* l.Println(v...), lines 86-93.
Println(n, v) ==
    /\ ~exited
    /\ WriteCall("Println", n, Sprintln(v))

Next ==
    \/ \E t \in ThresholdArgs : SetThreshold(t)
    \/ CallIsDebug
    \/ CallLogThreshold
    \/ \E n \in LevelNames, format \in Formats, v \in Operands : Printf(n, format, v)
    \/ \E n \in LevelNames, v \in OperandLists : Println(n, v)

Spec == Init /\ [][Next]_vars

-----------------------------------------------------------------------------
(* SpecRace: goroutines calling SetThreshold and the write operations with  *)
(* no synchronisation. logThreshold is a word-sized int, so a read observes *)
(* one whole value that some store wrote; with no happens-before edge       *)
(* between goroutines it need not be the latest one.                        *)

TotalStores == Len(stored["main"]) + Len(stored["g1"])

\* Mutant: a read that may also return a value no store wrote.
ObservableTorn(p) ==
    {InitialThreshold, LevelDebug}
    \cup UNION {{stored[q][i] : i \in DOMAIN stored[q]} : q \in Procs}

\* The values a read of logThreshold by goroutine p may return: its own latest
\* store (the initializer, if it has stored nothing), or any store of another
\* goroutine.
Observable(p) ==
    (IF stored[p] = <<>> THEN {InitialThreshold} ELSE {stored[p][Len(stored[p])]})
    \cup UNION {{stored[q][i] : i \in DOMAIN stored[q]} : q \in Procs \ {p}}

\* Every value logThreshold has held so far.
Held == {InitialThreshold} \cup UNION {{stored[q][i] : i \in DOMAIN stored[q]} : q \in Procs}

\* Goroutines that have passed the gate and not yet written their line.
Printing == {q \in Procs : pc[q] = "print"}

\* SetThreshold(t) by goroutine p, lines 53-59: its one access to shared state
\* is the store on line 57.
RaceSetThreshold(p, t) ==
    /\ ~exited
    /\ pc[p] = "idle"
    /\ call[p] = NoCall
    /\ TotalStores + Len(SetThresholdStores(t)) <= MaxStores
    /\ logThreshold' = AfterStores(SetThresholdStores(t), logThreshold)
    /\ stored' = [stored EXCEPT ![p] = stored[p] \o SetThresholdStores(t)]
    /\ ret' = [ret EXCEPT ![p] =
                  [NoRet EXCEPT !.op = "SetThreshold", !.arg = t,
                                !.err = SetThresholdError(t)]]
    /\ UNCHANGED <<levels, stdout, stderr, exited, exitStatus, pc, call>>

\* Lines 75 and 87 by goroutine p: the read of logThreshold, returning seen,
\* and the gating test on it.
RaceGate(p, op, n, s, seen) ==
    /\ ~exited
    /\ pc[p] = "idle"
    /\ seen \in Observable(p)
    /\ Gate(levels[n], seen) => Lines + Cardinality(Printing) < MaxLines
    /\ call' = [call EXCEPT ![p] =
                   [op |-> op, level |-> n, text |-> s, seen |-> seen, printed |-> FALSE]]
    /\ pc' = [pc EXCEPT ![p] = IF Gate(levels[n], seen) THEN "print" ELSE "exit"]
    /\ ret' = [ret EXCEPT ![p] = NoRet]
    /\ UNCHANGED <<logThreshold, levels, stdout, stderr, exited, exitStatus, stored>>

\* Lines 76 and 88 by goroutine p: the logger writes the line.
RacePrint(p) ==
    /\ ~exited
    /\ pc[p] = "print"
    /\ stdout' = StdoutAfterWrite(levels[call[p].level], call[p].text)
    /\ stderr' = StderrAfterWrite(levels[call[p].level], call[p].text)
    /\ call' = [call EXCEPT ![p].printed = TRUE]
    /\ pc' = [pc EXCEPT ![p] = "exit"]
    /\ UNCHANGED <<logThreshold, levels, exited, exitStatus, ret, stored>>

\* Lines 78-80 and 90-92 by goroutine p: os.Exit(1) for Fatal, return otherwise.
RaceExit(p) ==
    /\ ~exited
    /\ pc[p] = "exit"
    /\ IF ExitsProcess(levels[call[p].level])
         THEN /\ exited' = TRUE
              /\ exitStatus' = ExitCode
              /\ UNCHANGED <<pc, call>>
         ELSE /\ pc' = [pc EXCEPT ![p] = "idle"]
              /\ call' = [call EXCEPT ![p] = NoCall]
              /\ UNCHANGED <<exited, exitStatus>>
    /\ UNCHANGED <<logThreshold, levels, stdout, stderr, ret, stored>>

\* The inputs of SpecRace: a level that the initial threshold suppresses, one
\* that it lets through and Fatal; the lowest and the highest valid threshold
\* and the values just outside the range.
RaceLevels == {"Info", "Error", "Fatal"}
RaceThresholdArgs == {LevelDebug - 1, LevelDebug, LevelFatal, LevelFatal + 1}

\* l.Printf("%v", "x") by goroutine p, up to its gating test.
RacePrintf(p, n) ==
    \E seen \in Observable(p) : RaceGate(p, "Printf", n, Sprintf(<<"%v">>, "x"), seen)

\* l.Println("x") by goroutine p, up to its gating test.
RacePrintln(p, n) ==
    \E seen \in Observable(p) : RaceGate(p, "Println", n, Sprintln(<<"x">>), seen)

RaceNext ==
    \E p \in Procs :
        \/ \E t \in RaceThresholdArgs : RaceSetThreshold(p, t)
        \/ \E n \in RaceLevels : RacePrintf(p, n)
        \/ \E n \in RaceLevels : RacePrintln(p, n)
        \/ RacePrint(p)
        \/ RaceExit(p)

SpecRace == Init /\ [][RaceNext]_vars

-----------------------------------------------------------------------------
(* Vocabulary of the properties *)

\* The valid ranks, [LevelDebug, LevelFatal].
Ranks == LevelDebug .. LevelFatal

\* The texts the write operations of Spec hand to the logger.
Texts == {Sprintf(format, v) : format \in Formats, v \in Operands}
         \cup {Sprintln(v) : v \in OperandLists}

WriteOps == {"Printf", "Println"}

\* The rank, prefix and stream the documentation gives each level.
RankOf(n) ==
    CASE n = "Debug" -> 0 [] n = "Info" -> 1 [] n = "Warning" -> 2
      [] n = "Error" -> 3 [] n = "Fatal" -> 4

PrefixOf(n) ==
    CASE n = "Debug" -> "DEBUG: " [] n = "Info" -> "INFO: " [] n = "Warning" -> "WARNING: "
      [] n = "Error" -> "ERROR: " [] n = "Fatal" -> "FATAL: "

StreamOf(n) == IF n \in {"Debug", "Info"} THEN "os.Stdout" ELSE "os.Stderr"

\* The written line carries the message s, after its prefix and time stamp.
Carries(line, s) ==
    /\ line.stamped
    /\ Len(line.text) >= Len(s)
    /\ SubSeq(line.text, 1, Len(s)) = s

\* The last call of goroutine "main" in Spec.
mainRet == ret["main"]
mainCall == call["main"]

-----------------------------------------------------------------------------
(* C1 *)

\* C1: for every rank r in [LevelDebug, LevelFatal] and from every reachable
\* state, SetThreshold(r) returns nil, and a LogThreshold() called right after
\* it returns r.
C1_SetThresholdValid ==
    [][ /\ \A r \in Ranks :
             SetThreshold(r) => /\ mainRet'.err = Nil
                                /\ LogThreshold' = r
        /\ (mainRet.op = "SetThreshold" /\ mainRet.arg \in Ranks /\ CallLogThreshold)
             => mainRet'.int = mainRet.arg ]_vars

C1_Witness ==
    /\ mainRet.op = "SetThreshold"
    /\ mainRet.arg = LevelWarning
    /\ mainRet.err = Nil
    /\ LogThreshold = LevelWarning

-----------------------------------------------------------------------------
(* C2 *)

\* C2: for every argument t outside [LevelDebug, LevelFatal] (negative, one
\* past LevelFatal, 999), SetThreshold(t) returns ErrInvalidThreshold, the
\* value LogThreshold() returns is the same after the call as before it, and
\* nothing is written to either stream.
C2_SetThresholdInvalid ==
    [][ \A t \in ThresholdArgs \ Ranks :
          SetThreshold(t) => /\ mainRet'.err = ErrInvalidThreshold
                             /\ LogThreshold' = LogThreshold
                             /\ stdout' = stdout
                             /\ stderr' = stderr ]_vars

C2_Witness ==
    /\ mainRet.op = "SetThreshold"
    /\ mainRet.arg = 999
    /\ mainRet.err = ErrInvalidThreshold
    /\ LogThreshold = LevelError

-----------------------------------------------------------------------------
(* C3 *)

\* C3: a Printf or Println at level L writes exactly one line if and only if
\* L's rank is at least the threshold at the time of the call; below the
\* threshold neither stream nor the threshold changes. With the threshold at
\* Error, Debug, Info and Warning write nothing and Error and Fatal write;
\* with the threshold at Debug every level writes.
C3_Gating ==
    [][ \A op \in WriteOps, n \in LevelNames, s \in Texts :
          WriteCall(op, n, s) =>
            /\ IF RankOf(n) >= logThreshold
                 THEN Len(stdout') + Len(stderr') = Len(stdout) + Len(stderr) + 1
                 ELSE /\ stdout' = stdout
                      /\ stderr' = stderr
            /\ logThreshold' = logThreshold
            /\ (logThreshold = LevelError /\ n \in {"Debug", "Info", "Warning"})
                 => (stdout' = stdout /\ stderr' = stderr)
            /\ (logThreshold = LevelError /\ n \in {"Error", "Fatal"})
                 => <<stdout', stderr'>> # <<stdout, stderr>>
            /\ logThreshold = LevelDebug
                 => <<stdout', stderr'>> # <<stdout, stderr>> ]_vars

\* A Warning write was suppressed under threshold Error after an Error write
\* had been let through.
C3_Witness ==
    /\ logThreshold = LevelError
    /\ mainCall.level = "Warning"
    /\ ~mainCall.printed
    /\ Len(stderr) = 1
    /\ stderr[1].prefix = "ERROR: "
    /\ stdout = <<>>

-----------------------------------------------------------------------------
(* C4 *)

\* C4: a Printf or Println at Fatal level ends the process with exit status 1
\* whatever the threshold is; once the process has exited no operation runs and
\* nothing more is written.
C4_FatalExits ==
    [][ /\ \A op \in WriteOps, s \in Texts :
             WriteCall(op, "Fatal", s) => (exited' /\ exitStatus' = 1)
        /\ exited => UNCHANGED vars ]_vars

\* The process has exited from a Fatal write made with the threshold at Fatal.
C4_Witness ==
    /\ exited
    /\ exitStatus = 1
    /\ mainCall.level = "Fatal"
    /\ logThreshold = LevelFatal

-----------------------------------------------------------------------------
(* C5 *)

\* C5: every line a write at level L emits carries L's prefix and goes to L's
\* stream (Debug and Info to standard output; Warning, Error and Fatal to
\* standard error), for every threshold and after any sequence of calls; no
\* operation changes a level's prefix, rank or destination.
C5_PrefixAndDestination ==
    /\ [](/\ \A i \in DOMAIN stdout : stdout[i].prefix \in {"DEBUG: ", "INFO: "}
          /\ \A i \in DOMAIN stderr :
               stderr[i].prefix \in {"WARNING: ", "ERROR: ", "FATAL: "}
          /\ \A n \in LevelNames : /\ levels[n].prefix = PrefixOf(n)
                                   /\ levels[n].level = RankOf(n)
                                   /\ levels[n].destination = StreamOf(n))
    /\ [][ \A op \in WriteOps, n \in LevelNames, s \in Texts :
             (WriteCall(op, n, s) /\ mainCall'.printed) =>
               IF StreamOf(n) = "os.Stdout"
                 THEN /\ Len(stdout') = Len(stdout) + 1
                      /\ stdout'[Len(stdout')].prefix = PrefixOf(n)
                      /\ stderr' = stderr
                 ELSE /\ Len(stderr') = Len(stderr) + 1
                      /\ stderr'[Len(stderr')].prefix = PrefixOf(n)
                      /\ stdout' = stdout ]_vars

\* After a change of threshold, a Debug line is on standard output and a
\* Warning line on standard error.
C5_Witness ==
    /\ Len(stdout) = 1
    /\ stdout[1].prefix = "DEBUG: "
    /\ Len(stderr) = 1
    /\ stderr[1].prefix = "WARNING: "
    /\ logThreshold = LevelWarning

-----------------------------------------------------------------------------
(* C6 *)

\* C6: at process start the threshold is Error: LogThreshold() returns
\* LevelError, it stays so until a SetThreshold call, and a write at Info
\* writes nothing. A write at Info that follows a successful
\* SetThreshold(LevelDebug) writes exactly one line, on standard output, with
\* prefix "INFO: ". A successful SetThreshold(t) takes effect for every later
\* write: it makes t the threshold, no other call changes the threshold, and
\* every write is gated by the threshold at the time of the call.
C6_DefaultAndChange ==
    /\ LogThreshold = LevelError
    /\ [][ /\ (\A t \in ThresholdArgs : ~SetThreshold(t)) => LogThreshold' = LogThreshold
           /\ \A t \in ThresholdArgs :
                (SetThreshold(t) /\ mainRet'.err = Nil) => LogThreshold' = t
           /\ \A op \in WriteOps, n \in LevelNames, s \in Texts :
                WriteCall(op, n, s) =>
                  /\ mainCall'.printed <=> RankOf(n) >= LogThreshold
                  /\ mainCall'.printed <=> <<stdout', stderr'>> # <<stdout, stderr>>
                  /\ (n = "Info" /\ LogThreshold = LevelError)
                       => (stdout' = stdout /\ stderr' = stderr)
                  /\ (n = "Info" /\ mainRet.op = "SetThreshold" /\ mainRet.err = Nil
                        /\ mainRet.arg = LevelDebug)
                       => /\ stdout' = Append(stdout, stdout'[Len(stdout')])
                          /\ stdout'[Len(stdout')].prefix = "INFO: "
                          /\ Carries(stdout'[Len(stdout')], s)
                          /\ stderr' = stderr ]_vars

\* With the threshold set to Debug, an Info write has put the first line of
\* the process on standard output.
C6_Witness ==
    /\ logThreshold = LevelDebug
    /\ mainCall.level = "Info"
    /\ mainCall.printed
    /\ stdout = <<[prefix |-> "INFO: ", stamped |-> TRUE, text |-> <<"x", "\n">>]>>
    /\ stderr = <<>>

-----------------------------------------------------------------------------
(* C7 *)

\* C7: IsDebug() returns true exactly when the threshold is LevelDebug (false
\* for Info, Warning, Error and Fatal), and changes neither the threshold nor
\* any output.
C7_IsDebug ==
    [][ CallIsDebug => /\ mainRet'.bool <=> (logThreshold = LevelDebug)
                       /\ logThreshold \in {LevelInfo, LevelWarning, LevelError, LevelFatal}
                            => ~mainRet'.bool
                       /\ logThreshold' = logThreshold
                       /\ stdout' = stdout
                       /\ stderr' = stderr ]_vars

C7_Witness ==
    /\ mainRet.op = "IsDebug"
    /\ mainRet.bool
    /\ logThreshold = LevelDebug

-----------------------------------------------------------------------------
(* C10 *)

\* C10: in every reachable state the threshold lies in [LevelDebug,
\* LevelFatal]; only a successful SetThreshold changes it: writes,
\* LogThreshold and IsDebug leave it unchanged, and so does a SetThreshold with
\* an invalid argument.
C10_ThresholdInRange ==
    /\ [](logThreshold \in Ranks)
    /\ [][ logThreshold' # logThreshold =>
             /\ mainRet'.op = "SetThreshold"
             /\ mainRet'.err = Nil
             /\ mainRet'.arg = logThreshold' ]_vars

\* The threshold is at its highest value after a rejected SetThreshold and
\* with a line written.
C10_Witness ==
    /\ logThreshold = LevelFatal
    /\ mainRet.op = "SetThreshold"
    /\ mainRet.err = ErrInvalidThreshold
    /\ Len(stderr) = 1

-----------------------------------------------------------------------------
(* C8, under SpecRace *)

\* The FATAL line of goroutine p's call is on standard error.
FatalLineWritten(p) ==
    \E i \in DOMAIN stderr :
        stderr[i].prefix = "FATAL: " /\ Carries(stderr[i], call[p].text)

\* C8: a Fatal write is never suppressed by gating: in every reachable state
\* the threshold is at most LevelFatal, so a Fatal write always passes the gate
\* and writes its "FATAL: " line on standard error, and the line is written
\* before the process exits.
C8_FatalNeverSuppressed ==
    /\ logThreshold <= LevelFatal
    /\ \A p \in Procs :
         call[p].level = "Fatal" =>
           \/ pc[p] = "print"
           \/ pc[p] = "exit" /\ call[p].printed /\ FatalLineWritten(p)
    /\ exited => \E p \in Procs : /\ call[p].level = "Fatal"
                                  /\ pc[p] = "exit"
                                  /\ call[p].printed
                                  /\ FatalLineWritten(p)

\* The process has exited from a Fatal write made while the threshold was
\* LevelFatal, with the FATAL line on standard error.
C8_Witness ==
    /\ exited
    /\ logThreshold = LevelFatal
    /\ \E p \in Procs : call[p].level = "Fatal" /\ call[p].seen = LevelFatal
                        /\ FatalLineWritten(p)

-----------------------------------------------------------------------------
(* C9, under SpecRace *)

\* C9: with SetThreshold calls racing write calls, each write reads the
\* threshold once and prints or not as that one value decides (a line is
\* written only by a call that passed the gate, one line per call); the value
\* it read is one logThreshold held at some point of the run. The threshold is
\* replaced in one step and only ever holds the initial Error or the argument
\* of a SetThreshold call that returned nil.
C9_RaceBenign ==
    /\ [](/\ \A p \in Procs :
               pc[p] # "idle" =>
                 /\ call[p].seen \in Held
                 /\ (pc[p] = "print" \/ call[p].printed)
                      <=> RankOf(call[p].level) >= call[p].seen
          /\ logThreshold \in Held
          /\ Held \subseteq Ranks)
    /\ [][ /\ logThreshold' # logThreshold =>
                \E p \in Procs : /\ ret'[p].op = "SetThreshold"
                                 /\ ret'[p].err = Nil
                                 /\ ret'[p].arg = logThreshold'
                                 /\ stored'[p] = Append(stored[p], logThreshold')
           /\ \A p \in Procs :
                (pc[p] # "idle" /\ pc'[p] # "idle") => call'[p].seen = call[p].seen
           /\ Len(stdout') + Len(stderr') =
                Len(stdout) + Len(stderr)
                  + Cardinality({p \in Procs : pc[p] = "print" /\ pc'[p] # "print"}) ]_vars

\* Goroutine p's Info write was gated by the initial Error and suppressed; the
\* threshold is now Debug, stored by another goroutine's SetThreshold that
\* returned nil.
C9_Witness ==
    \E p \in Procs, q \in Procs :
        /\ p # q
        /\ pc[p] = "exit"
        /\ call[p].level = "Info"
        /\ call[p].seen = LevelError
        /\ ~call[p].printed
        /\ logThreshold = LevelDebug
        /\ ret[q].op = "SetThreshold"
        /\ ret[q].err = Nil
        /\ ret[q].arg = LevelDebug

====
